---- MODULE Spec2Model ----
(***************************************************************************)
(* p-adic elements with lattice precision                                  *)
(* (src/src/sage/rings/padics/padic_lattice_element.py) and bipartite      *)
(* graphs (src/src/sage/graphs/bipartite_graph.py).                        *)
(*                                                                         *)
(* An element pairs an exact value (a pRational) with a column of the      *)
(* precision object shared by all elements of the same label.  Elements    *)
(* are identified by their index in the order of their creation.           *)
(***************************************************************************)
EXTENDS Integers, Sequences, FiniteSets, TLC

VARIABLES
    dom,        \* the parent: caps, policy, zero cap (fixed at creation)
    els,        \* the elements created so far: stored value, parent, liveness
    tracker,    \* the precision object (parent.precision())
    decl,       \* per element: what its constructor was given and declared
    last,       \* the last operation performed and what it returned
    inferred,   \* whether lift_to_precision(infer_precision=True) was ever called
    vertices,   \* BipartiteGraph: the vertices of the graph
    edges,      \* BipartiteGraph: the edges of the graph, sets of two vertices
    left,       \* BipartiteGraph.left
    right       \* BipartiteGraph.right

vars == <<dom, els, tracker, decl, last, inferred, vertices, edges, left, right>>

\* the state of the bipartite graph
gvars == <<vertices, edges, left, right>>

----------------------------------------------------------------------------
(* Bounds of the model *)

MaxEls == 3
MaxRaw == 3
MaxPrec == 3
MaxShift == 1

----------------------------------------------------------------------------
(* Exact values: pRational, a rational number tagged with the prime *)

Prime == 2

Infinity == 1000000

None == <<>>

Some(k) == <<k>>

Min(a, b) == IF a <= b THEN a ELSE b

Abs(a) == IF a < 0 THEN -a ELSE a

RECURSIVE GCD(_, _)
GCD(a, b) == IF b = 0 THEN a ELSE GCD(b, a % b)

\* the rational n/d in lowest terms with a positive denominator
pRational(n, d) ==
    LET s == IF d < 0 THEN -1 ELSE 1
        g == GCD(Abs(n), Abs(d))
    IN  [n |-> (s * n) \div g, d |-> (s * d) \div g]

Zero == pRational(0, 1)

One == pRational(1, 1)

MinusOne == pRational(-1, 1)

padd(a, b) == pRational(a.n * b.d + b.n * a.d, a.d * b.d)

pneg(a) == pRational(-a.n, a.d)

psub(a, b) == padd(a, pneg(b))

pmul(a, b) == pRational(a.n * b.n, a.d * b.d)

pdiv(a, b) == pRational(a.n * b.d, a.d * b.n)

RECURSIVE Pow(_)
Pow(k) == IF k <= 0 THEN 1 ELSE Prime * Pow(k - 1)

\* pRational(p, 1, n): the n-th power of the prime, n of either sign
powp(n) == IF n >= 0 THEN pRational(Pow(n), 1) ELSE pRational(1, Pow(-n))

RECURSIVE VpInt(_)
VpInt(a) == IF a % Prime # 0 THEN 0 ELSE 1 + VpInt(a \div Prime)

pvaluation(a) == IF a.n = 0 THEN Infinity ELSE VpInt(Abs(a.n)) - VpInt(a.d)

\* v + k for a valuation or precision v that may be infinite
ValPlus(v, k) == IF v = Infinity \/ k = Infinity THEN Infinity ELSE v + k

ModInv(b, m) == IF m = 1 THEN 0 ELSE CHOOSE k \in 0..(m - 1) : (b * k) % m = 1

\* the representative of a modulo p^prec: the r in Z[1/p] with
\* 0 <= r < p^prec and a - r of valuation at least prec
preduce(a, prec) ==
    IF prec = Infinity \/ a.n = 0 THEN a
    ELSE LET v == pvaluation(a) IN
         IF v >= prec THEN Zero
         ELSE LET num == Abs(a.n) \div Pow(VpInt(Abs(a.n)))
                  sgn == IF a.n < 0 THEN -1 ELSE 1
                  den == a.d \div Pow(VpInt(a.d))
                  m   == Pow(prec - v)
                  u   == (((sgn * num) % m) * ModInv(den % m, m)) % m
              IN  pmul(pRational(u, 1), powp(v))

SetMin(S) == CHOOSE v \in S : \A w \in S : v <= w

SetMax(S) == CHOOSE v \in S : \A w \in S : v >= w

----------------------------------------------------------------------------
(* The precision object shared by the elements (parent.precision()).       *)
(* Its matrix has one column per element and one row per generator: an     *)
(* element declared with a finite bigoh brings one generator p^bigoh.      *)

IsFinitePrec(bigoh) == bigoh # None /\ bigoh[1] # Infinity

StartingAdditionalPrec == 1

NewTracker(relcap) ==
    [matrix |-> <<>>, capped |-> <<>>, dimension |-> 0,
     internal_prec |-> relcap + StartingAdditionalPrec, count |-> 0, threshold |-> 1]

ColEntry(col, i) == IF i <= Len(col) THEN col[i] ELSE Zero

\* row i of the linear combination dx = <<element, scalar>>, ... of columns
RECURSIVE LinComb(_, _, _, _)
LinComb(T, dx, i, k) ==
    IF k = 0 THEN Zero
    ELSE padd(LinComb(T, dx, i, k - 1),
              pmul(dx[k][2], ColEntry(T.matrix[dx[k][1]], i)))

\* registerElement: the column of the new element is the combination of its
\* operands' columns reduced modulo p^bigoh, followed by its own generator
_new_element(T, dx, bigoh, capped) ==
    LET n    == T.dimension
        fin  == IsFinitePrec(bigoh)
        comb == [i \in 1..n |-> LinComb(T, dx, i, Len(dx))]
        red  == [i \in 1..n |-> IF fin THEN preduce(comb[i], bigoh[1]) ELSE comb[i]]
        col  == IF fin THEN Append(red, powp(bigoh[1])) ELSE red
        cnt  == T.count + 1
        bump == cnt > T.threshold
    IN  [matrix |-> Append(T.matrix, col),
         capped |-> Append(T.capped, capped),
         dimension |-> IF fin THEN n + 1 ELSE n,
         internal_prec |-> IF bump THEN T.internal_prec + 1 ELSE T.internal_prec,
         count |-> cnt,
         threshold |-> IF bump THEN T.threshold * Prime ELSE T.threshold]

\* absolutePrecisionOf: the projection of the lattice on the element's coordinate
_precision_absolute(T, x) ==
    LET col == T.matrix[x]
        vs  == {pvaluation(col[i]) : i \in 1..Len(col)}
    IN  IF vs = {} THEN Infinity ELSE SetMin(vs)

_is_precision_capped(T, x) == T.capped[x]

internal_prec(T) == T.internal_prec

\* the rows on which a column has valuation below prec
LowRows(col, prec) == {r \in 1..Len(col) : pvaluation(col[r]) < prec}

\* one round of the lift: the rows of valuation v are cleared against the
\* pivot piv, and the pivot row is rescaled to valuation w
LiftRound(M, col, prec, v, rows, w, piv) ==
    [j \in 1..Len(M) |->
        IF Len(M[j]) < piv THEN M[j]
        ELSE [r \in 1..Len(M[j]) |->
                IF r = piv THEN pmul(M[j][piv], powp(w - v))
                ELSE IF r \in rows
                THEN preduce(psub(M[j][r],
                                  pmul(preduce(pdiv(col[r], col[piv]), prec - v), M[j][piv])),
                             prec)
                ELSE M[j][r]]]

LiftRows(M, col, prec, v, rows) ==
    LiftRound(M, col, prec, v, rows,
              SetMin({pvaluation(col[r]) : r \in LowRows(col, prec) \ rows} \cup {prec}),
              SetMax(rows))

LiftValuation(M, col, prec, v) ==
    LiftRows(M, col, prec, v, {r \in 1..Len(col) : pvaluation(col[r]) = v})

\* liftToPrecision on the matrix: the rows on which column x has valuation
\* below prec are cleared against a pivot, the pivot row is rescaled, and so
\* on until column x has valuation at least prec everywhere
RECURSIVE LiftMatrix(_, _, _)
LiftMatrix(M, x, prec) ==
    IF LowRows(M[x], prec) = {} THEN M
    ELSE LiftMatrix(LiftValuation(M, M[x], prec,
                                  SetMin({pvaluation(M[x][r]) : r \in LowRows(M[x], prec)})),
                    x, prec)

tracker_lift_to_precision(T, x, prec) ==
    [T EXCEPT !.matrix = LiftMatrix(T.matrix, x, prec)]

----------------------------------------------------------------------------
(* The parents.  A ring and its fraction field share the precision object. *)

CapRel == 2
CapAbs == 3

\* lattice-cap parents define no zero cap; lattice-float parents have no
\* absolute cap and collapse to zero at their relative precision.
\* field tells whether elements are created in the ring or in its fraction field
Domains ==
    { [policy |-> "cap", relcap |-> CapRel, abscap |-> CapAbs,
       zero_cap |-> None, field |-> f] : f \in BOOLEAN }
    \cup
    { [policy |-> "float", relcap |-> CapRel, abscap |-> Infinity,
       zero_cap |-> Some(CapRel), field |-> f] : f \in BOOLEAN }

RawValues == 0..MaxRaw

PrecArgs == {None} \cup {Some(k) : k \in 1..MaxPrec}

Shifts == (-MaxShift)..MaxShift

Elts == {i \in 1..Len(els) : els[i].live}

----------------------------------------------------------------------------
(* Queries of pAdicLatticeElement *)

value(self) == els[self].value

\* precision_absolute() that keeps serving the value it computed when the
\* element was created
precision_absolute_cached(E, T, self) ==
    IF self <= Len(decl) THEN decl[self].prec0
    ELSE Min(_precision_absolute(T, self), ValPlus(pvaluation(E[self].value), dom.relcap))

\* precision_absolute() of element self when the elements are E and the
\* precision object is T
precision_absolute_at(E, T, self) ==
    LET prec == _precision_absolute(T, self)
        cap  == ValPlus(pvaluation(E[self].value), dom.relcap)
    IN  Min(prec, cap)

precision_absolute(self) == precision_absolute_at(els, tracker, self)

is_precision_capped(self) == _is_precision_capped(tracker, self)

Ok(r) == [err |-> "", ret |-> r]

Raise(e) == [err |-> e, ret |-> 0]

\* valuation() that returns the precision as a guess whatever secure says
valuation_guess(self, secure) ==
    LET val  == pvaluation(els[self].value)
        prec == precision_absolute(self)
    IN  IF val < prec THEN Ok(val) ELSE Ok(prec)

valuation(self, secure) ==
    LET val  == pvaluation(els[self].value)
        prec == precision_absolute(self)
    IN  IF val < prec THEN Ok(val)
        ELSE IF secure THEN Raise("PrecisionError")
        ELSE Ok(prec)

\* precision_relative() that subtracts the valuation of the stored value
precision_relative_of_value(self, secure) ==
    Ok(IF precision_absolute(self) = Infinity THEN Infinity
       ELSE precision_absolute(self) - pvaluation(els[self].value))

precision_relative(self, secure) ==
    LET v == valuation(self, secure)
    IN  IF v.err # "" THEN v
        ELSE Ok(IF precision_absolute(self) = Infinity THEN Infinity
                ELSE precision_absolute(self) - v.ret)

_is_inexact_zero(self) == pvaluation(els[self].value) >= precision_absolute(self)

\* is_zero() with a strict comparison
is_zero_at_strict(E, T, self, prec) ==
    LET absprec == precision_absolute_at(E, T, self)
        p2 == IF prec = None THEN absprec ELSE Min(absprec, prec[1])
    IN  pvaluation(E[self].value) > p2

is_zero_at(E, T, self, prec) ==
    LET absprec == precision_absolute_at(E, T, self)
        p2 == IF prec = None THEN absprec ELSE Min(absprec, prec[1])
    IN  pvaluation(E[self].value) >= p2

is_zero(self, prec) == is_zero_at(els, tracker, self, prec)

lift(self) == els[self].value

approximation(self) == preduce(els[self].value, precision_absolute(self))

----------------------------------------------------------------------------
(* Declaration of a new element to the precision object *)

\* the capped declaration that registers the element twice
CapDeclared_twice(dx, capped, prec) ==
    [tracker |-> _new_element(_new_element(tracker, dx, Some(prec), capped),
                              <<>>, Some(prec), capped),
     bigoh |-> Some(prec), capped |-> capped, trunc |-> prec]

CapDeclared(dx, capped, prec) ==
    [tracker |-> _new_element(tracker, dx, Some(prec), capped),
     bigoh |-> Some(prec), capped |-> capped, trunc |-> prec]

\* the capped declaration that registers a capped element at the absolute cap
\* of the domain and truncates it at cap
CapChoose_abscap_registered(dx, prec, cap) ==
    IF prec = None \/ prec[1] > cap
    THEN [CapDeclared(dx, TRUE, dom.abscap) EXCEPT !.trunc = cap]
    ELSE CapDeclared(dx, FALSE, prec[1])

CapChoose(dx, prec, cap) ==
    IF prec = None \/ prec[1] > cap
    THEN CapDeclared(dx, TRUE, cap)
    ELSE CapDeclared(dx, FALSE, prec[1])

\* the capped declaration that forgets the relative cap
CapElement_declare_new_element_abscap(x, dx, prec) ==
    CapChoose(dx, prec, dom.abscap)

CapElement_declare_new_element(x, dx, prec) ==
    CapChoose(dx, prec, Min(dom.abscap, ValPlus(pvaluation(x), dom.relcap)))

FloatTrunc(cap, prec) == IF prec = None THEN cap ELSE Min(cap, prec[1])

\* T is the precision object after the registration of the element
FloatDeclared(x, prec, T) ==
    [tracker |-> T, bigoh |-> prec, capped |-> FALSE,
     trunc |-> FloatTrunc(ValPlus(pvaluation(x), internal_prec(T)), prec)]

\* the floating declaration that reads the internal precision before it
\* registers the element
FloatElement_declare_new_element_read_first(x, dx, prec) ==
    [FloatDeclared(x, prec, _new_element(tracker, dx, prec, FALSE))
        EXCEPT !.trunc = FloatTrunc(ValPlus(pvaluation(x), internal_prec(tracker)), prec)]

FloatElement_declare_new_element(x, dx, prec) ==
    FloatDeclared(x, prec, _new_element(tracker, dx, prec, FALSE))

_declare_new_element(x, dx, prec) ==
    IF dom.policy = "cap" THEN CapElement_declare_new_element(x, dx, prec)
    ELSE FloatElement_declare_new_element(x, dx, prec)

\* __init__ that forgets to reduce the value to the precision it declared
Initialized_unreduced(is_field, x, prec, dx, d) ==
    [tracker |-> d.tracker,
     el |-> [value |-> x, field |-> is_field, live |-> TRUE],
     decl |-> [raw |-> x, prec |-> prec, dx |-> dx, bigoh |-> d.bigoh,
               capped |-> d.capped, trunc |-> d.trunc, prec0 |-> 0]]

\* d is what _declare_new_element returned: the element, the precision
\* object after the declaration, and the record of what was declared
Initialized(is_field, x, prec, dx, d) ==
    [tracker |-> d.tracker,
     el |-> [value |-> preduce(x, d.trunc), field |-> is_field, live |-> TRUE],
     decl |-> [raw |-> x, prec |-> prec, dx |-> dx, bigoh |-> d.bigoh,
               capped |-> d.capped, trunc |-> d.trunc, prec0 |-> 0]]

\* __init__ with check=False and reduce=True
__init__(is_field, x, prec, dx) ==
    Initialized(is_field, x, prec, dx, _declare_new_element(x, dx, prec))

\* the constructed element c joins the elements, the precision object becomes T
Created(c, T, live) ==
    /\ UNCHANGED gvars
    /\ els' = Append(els, [c.el EXCEPT !.live = live])
    /\ tracker' = T
    /\ decl' = Append(decl, [c.decl EXCEPT !.prec0 =
                                precision_absolute_at(Append(els, c.el), T, Len(els) + 1)])

Last(op, self, other, arg, err, ret, new) ==
    [op |-> op, self |-> self, other |-> other, arg |-> arg,
     err |-> err, ret |-> ret, new |-> new]

Returned(op, self, other, arg, c) ==
    /\ UNCHANGED <<dom, inferred>>
    /\ Created(c, c.tracker, TRUE)
    /\ last' = Last(op, self, other, arg, "", None, Len(els) + 1)

Failed(op, self, other, arg, err) ==
    /\ last' = Last(op, self, other, arg, err, None, 0)
    /\ UNCHANGED <<dom, els, tracker, decl, inferred, gvars>>

----------------------------------------------------------------------------
(* Operations of pAdicLatticeElement *)

\* BipartiteGraph(): no vertex, no edge
GraphEmpty ==
    /\ vertices = {}
    /\ edges = {}
    /\ left = {}
    /\ right = {}

Init ==
    /\ dom \in Domains
    /\ els = <<>>
    /\ tracker = NewTracker(dom.relcap)
    /\ decl = <<>>
    /\ last = Last("init", 0, 0, None, "", None, 0)
    /\ inferred = FALSE
    /\ GraphEmpty

\* parent(x, prec) for a rational x: __init__ with check=True and no differential
New(x, prec) ==
    /\ Returned("new", 0, 0, prec, __init__(dom.field, pRational(x, 1), prec, <<>>))

\* the zero test with a strict comparison
zero_collapse_strict(x, a, b) ==
    /\ dom.zero_cap # None
    /\ pvaluation(x) > ValPlus(Min(pvaluation(a), pvaluation(b)), dom.zero_cap[1])

\* whether x is forced to zero after the cancellation of a and b
zero_collapse(x, a, b) ==
    /\ dom.zero_cap # None
    /\ pvaluation(x) >= ValPlus(Min(pvaluation(a), pvaluation(b)), dom.zero_cap[1])

add_x(self, other) ==
    LET x == padd(els[self].value, els[other].value)
    IN  IF zero_collapse(x, els[self].value, els[other].value) THEN Zero ELSE x

add_dx(self, other) == << <<self, One>>, <<other, One>> >>

_add_(self, other) ==
    /\ els[self].field = els[other].field
    /\ Returned("add", self, other, None,
                __init__(els[self].field, add_x(self, other), None, add_dx(self, other)))

sub_x(self, other) ==
    LET x == psub(els[self].value, els[other].value)
    IN  IF zero_collapse(x, els[self].value, els[other].value) THEN Zero ELSE x

\* the differential of a sum declared for a difference
sub_dx_plus(self, other) == << <<self, One>>, <<other, One>> >>

sub_dx(self, other) == << <<self, One>>, <<other, MinusOne>> >>

_sub_(self, other) ==
    /\ els[self].field = els[other].field
    /\ Returned("sub", self, other, None,
                __init__(els[self].field, sub_x(self, other), None, sub_dx(self, other)))

\* the product rule taken at the approximations of the operands
mul_dx_approximation(self, other) ==
    << <<self, approximation(other)>>, <<other, approximation(self)>> >>

mul_dx(self, other) ==
    << <<self, els[other].value>>, <<other, els[self].value>> >>

_mul_(self, other) ==
    /\ els[self].field = els[other].field
    /\ Returned("mul", self, other, None,
                __init__(els[self].field, pmul(els[self].value, els[other].value),
                         None, mul_dx(self, other)))

div_dx(self, other) ==
    LET x_self  == els[self].value
        x_other == els[other].value
    IN  << <<self, pdiv(One, x_other)>>,
           <<other, pdiv(pneg(x_self), pmul(x_other, x_other))>> >>

\* the quotient declared in the parent of the operands
_div_in_parent(self, other) ==
    /\ els[self].field = els[other].field
    /\ IF is_zero(other, None)
       THEN Failed("div", self, other, None, "PrecisionError")
       ELSE Returned("div", self, other, None,
                     __init__(els[self].field, pdiv(els[self].value, els[other].value),
                              None, div_dx(self, other)))

_div_(self, other) ==
    /\ els[self].field = els[other].field
    /\ IF is_zero(other, None)
       THEN Failed("div", self, other, None, "PrecisionError")
       ELSE Returned("div", self, other, None,
                     __init__(TRUE, pdiv(els[self].value, els[other].value),
                              None, div_dx(self, other)))

invert_dx(self) ==
    << <<self, pdiv(MinusOne, pmul(els[self].value, els[self].value))>> >>

__invert__(self) ==
    /\ IF is_zero(self, None)
       THEN Failed("invert", self, 0, None, "PrecisionError")
       ELSE Returned("invert", self, 0, None,
                     __init__(TRUE, pdiv(One, els[self].value), None, invert_dx(self)))

\* the add_bigoh that sets the precision to prec, whatever self has
add_bigoh_independent(self, prec) ==
    /\ Returned("add_bigoh", self, 0, Some(prec),
                __init__(els[self].field, els[self].value, Some(prec), <<>>))

add_bigoh(self, prec) ==
    /\ Returned("add_bigoh", self, 0, Some(prec),
                __init__(els[self].field, els[self].value, Some(prec), << <<self, One>> >>))

\* copy(parent): target is "None", or names the parent asked for: the ring or
\* the field of the element's precision object, a ring or a field with another
\* precision object, or a parent that has no precision object
CopyTargets == {"None", "ring", "field", "other_ring", "other_field", "no_precision"}

\* copy() that looks at the valuation before it looks at the precision object
copy_error_valuation_first(self, target) ==
    IF target \in {"ring", "other_ring"} /\ valuation(self, FALSE).ret < 0 THEN "ValueError"
    ELSE IF target \in {"other_ring", "other_field", "no_precision"} THEN "TypeError"
    ELSE ""

copy_error(self, target) ==
    IF target \in {"other_ring", "other_field", "no_precision"} THEN "TypeError"
    ELSE IF target = "ring" /\ valuation(self, FALSE).ret < 0 THEN "ValueError"
    ELSE ""

\* the copy that is declared without a differential
copy_init_independent(self, target) ==
    __init__(IF target = "None" THEN els[self].field ELSE target = "field",
             els[self].value, None, <<>>)

copy_init(self, target) ==
    __init__(IF target = "None" THEN els[self].field ELSE target = "field",
             els[self].value, None, << <<self, One>> >>)

copy(self, target) ==
    /\ IF copy_error(self, target) # ""
       THEN Failed("copy", self, 0, target, copy_error(self, target))
       ELSE Returned("copy", self, 0, target, copy_init(self, target))

\* the precision handed to the precision object by lift_to_precision(infer_precision=True)
LiftCap(prec, cap) == IF prec = None \/ prec[1] > cap THEN cap ELSE prec[1]

\* the precision that is not compared with the cap when it is given
lift_cap_as_requested(self, prec) ==
    IF prec = None
    THEN Min(dom.abscap, ValPlus(pvaluation(els[self].value), dom.relcap))
    ELSE prec[1]

lift_cap(self, prec) ==
    LiftCap(prec, Min(dom.abscap, ValPlus(pvaluation(els[self].value), dom.relcap)))

\* lift = self.copy() is c; the precision object then lifts it to prec
InferLift(self, arg, c, prec) ==
    /\ prec # Infinity
    /\ dom' = dom
    /\ inferred' = TRUE
    /\ Created(c, tracker_lift_to_precision(c.tracker, Len(els) + 1, prec), TRUE)
    /\ last' = Last("lift_to_precision", self, 0, arg, "", Some(prec), Len(els) + 1)

\* lift_to_precision that lifts through the precision object whatever
\* infer_precision says
InferLiftFlagged(self, arg, c, prec, flag) ==
    /\ prec # Infinity
    /\ dom' = dom
    /\ inferred' = (inferred \/ flag)
    /\ Created(c, tracker_lift_to_precision(c.tracker, Len(els) + 1, prec), TRUE)
    /\ last' = Last("lift_to_precision", self, 0, arg, "", Some(prec), Len(els) + 1)

lift_to_precision_always_infer(self, prec, infer_precision) ==
    InferLiftFlagged(self, prec, copy_init(self, "None"), lift_cap(self, prec), infer_precision)

\* the lift_to_precision whose result keeps the differential of a copy
lift_to_precision_linked(self, prec, infer_precision) ==
    /\ IF infer_precision
       THEN InferLift(self, prec, copy_init(self, "None"), lift_cap(self, prec))
       ELSE Returned("lift_to_precision", self, 0, prec,
                     __init__(els[self].field, els[self].value, prec, << <<self, One>> >>))

lift_to_precision(self, prec, infer_precision) ==
    /\ IF infer_precision
       THEN InferLift(self, prec, copy_init(self, "None"), lift_cap(self, prec))
       ELSE Returned("lift_to_precision", self, 0, prec,
                     __init__(els[self].field, els[self].value, prec, <<>>))

\* the shift that keeps the terms of negative valuation in a ring
lshift_result_untruncated(self, n) ==
    IF ~els[self].field /\ ValPlus(precision_absolute(self), n) < 0
    THEN __init__(FALSE, Zero, Some(0), <<>>)
    ELSE __init__(els[self].field, pmul(els[self].value, powp(n)), None,
                  << <<self, powp(n)>> >>)

lshift_result(self, n) ==
    IF ~els[self].field /\ ValPlus(precision_absolute(self), n) < 0
    THEN __init__(FALSE, Zero, Some(0), <<>>)
    ELSE LET x0 == pmul(els[self].value, powp(n))
             x  == IF ~els[self].field THEN psub(x0, preduce(x0, 0)) ELSE x0
         IN  __init__(els[self].field, x, None, << <<self, powp(n)>> >>)

\* the left shift whose result does not depend on self in the precision object
lshift_without_differential(self, n) ==
    /\ Returned("lshift", self, 0, Some(n),
                __init__(els[self].field, pmul(els[self].value, powp(n)), None, <<>>))

__lshift__(self, n) ==
    /\ Returned("lshift", self, 0, Some(n), lshift_result(self, n))

\* the right shift that shifts to the left
rshift_to_the_left(self, n) ==
    /\ Returned("rshift", self, 0, Some(n), lshift_result(self, n))

__rshift__(self, n) ==
    /\ Returned("rshift", self, 0, Some(n), lshift_result(self, -n))

\* the digits of a in radix p from its valuation up to position prec - 1;
\* a is a power of p times an integer u >= 0 that p does not divide
pRational_list(a, prec) ==
    IF pvaluation(a) >= prec
    THEN <<>>
    ELSE [k \in 1..(prec - pvaluation(a)) |->
            (pmul(a, powp(-pvaluation(a))).n \div Pow(k - 1)) % Prime]

\* the expansion that ends at the precision the stored value is truncated at
expansion_to_truncation(self) == pRational_list(els[self].value, decl[self].trunc)

expansion(self) == pRational_list(els[self].value, precision_absolute(self))

\* the valuation unit_part and val_unit would take without secure=True
unit_valuation_guess(self) == valuation(self, FALSE)

\* v = self.valuation(secure=True)
unit_valuation(self) == valuation(self, TRUE)

unit_part(self) ==
    /\ IF unit_valuation(self).err # ""
       THEN Failed("unit_part", self, 0, None, unit_valuation(self).err)
       ELSE Returned("unit_part", self, 0, None,
                     lshift_result(self, -unit_valuation(self).ret))

val_unit(self) ==
    /\ IF unit_valuation(self).err # ""
       THEN Failed("val_unit", self, 0, None, unit_valuation(self).err)
       ELSE /\ UNCHANGED <<dom, inferred>>
            /\ Created(lshift_result(self, -unit_valuation(self).ret),
                       lshift_result(self, -unit_valuation(self).ret).tracker, TRUE)
            /\ last' = Last("val_unit", self, 0, None, "",
                            Some(unit_valuation(self).ret), Len(els) + 1)

\* the order of two rationals: -1, 0 or 1
cmp_rational(a, b) ==
    IF a.n * b.d < b.n * a.d THEN -1 ELSE IF a.n * b.d > b.n * a.d THEN 1 ELSE 0

\* the comparison that goes by the stored rationals alone
Compared_by_lift(self, other, c) ==
    /\ Created(c, c.tracker, FALSE)
    /\ last' = Last("cmp", self, other, None, "",
                    Some(cmp_rational(lift(self), lift(other))), Len(els) + 1)

\* c is self - other, which is declared and then dropped
Compared(self, other, c) ==
    /\ Created(c, c.tracker, FALSE)
    /\ last' = Last("cmp", self, other, None, "",
                    Some(IF is_zero_at(Append(els, c.el), c.tracker, Len(els) + 1, None)
                         THEN 0 ELSE cmp_rational(lift(self), lift(other))),
                    Len(els) + 1)

_cmp_(self, other) ==
    /\ els[self].field = els[other].field
    /\ UNCHANGED <<dom, inferred>>
    /\ Compared(self, other,
                __init__(els[self].field, sub_x(self, other), None, sub_dx(self, other)))

\* an exception that is raised ends the run: an operation that fails leaves
\* the elements and the precision object as they were
Running == last.err = ""

\* the model creates at most MaxEls elements
Room == Len(els) < MaxEls

Next ==
    \/ Running /\ Room /\ \E x \in RawValues, prec \in PrecArgs : New(x, prec)
    \/ Running /\ Room /\ \E a \in Elts, b \in Elts : _add_(a, b)
    \/ Running /\ Room /\ \E a \in Elts, b \in Elts : _sub_(a, b)
    \/ Running /\ Room /\ \E a \in Elts, b \in Elts : _mul_(a, b)
    \/ Running /\ Room /\ \E a \in Elts, b \in Elts : _div_(a, b)
    \/ Running /\ Room /\ \E a \in Elts : __invert__(a)
    \/ Running /\ Room /\ \E a \in Elts, k \in 0..MaxPrec : add_bigoh(a, k)
    \/ Running /\ Room /\ \E a \in Elts, prec \in PrecArgs, infer \in BOOLEAN : lift_to_precision(a, prec, infer)
    \/ Running /\ Room /\ \E a \in Elts, n \in Shifts : __lshift__(a, n)
    \/ Running /\ Room /\ \E a \in Elts, n \in Shifts : __rshift__(a, n)
    \/ Running /\ Room /\ \E a \in Elts, t \in CopyTargets : copy(a, t)
    \/ Running /\ Room /\ \E a \in Elts, b \in Elts : _cmp_(a, b)

Spec == Init /\ [][Next]_vars

----------------------------------------------------------------------------
(* The operations together with the queries, whose results are recorded in *)
(* last                                                                    *)

MaxQueryEls == 2

QueryRoom == Len(els) < MaxQueryEls

\* r is what the query returned or raised
Queried(op, self, arg, r) ==
    /\ last' = Last(op, self, 0, arg, r.err, IF r.err = "" THEN Some(r.ret) ELSE None, 0)
    /\ UNCHANGED <<dom, els, tracker, decl, inferred, gvars>>

Query_precision_absolute(self) ==
    Queried("precision_absolute", self, None, Ok(precision_absolute(self)))

Query_valuation(self, secure) ==
    Queried("valuation", self, Some(secure), valuation(self, secure))

QueryNext ==
    \/ Running /\ QueryRoom /\ \E x \in RawValues, prec \in PrecArgs : New(x, prec)
    \/ Running /\ QueryRoom /\ \E a \in Elts, b \in Elts : _add_(a, b)
    \/ Running /\ QueryRoom /\ \E a \in Elts, b \in Elts : _sub_(a, b)
    \/ Running /\ QueryRoom /\ \E a \in Elts, b \in Elts : _mul_(a, b)
    \/ Running /\ QueryRoom /\ \E a \in Elts, b \in Elts : _div_(a, b)
    \/ Running /\ QueryRoom /\ \E a \in Elts : __invert__(a)
    \/ Running /\ QueryRoom /\ \E a \in Elts, k \in 0..MaxPrec : add_bigoh(a, k)
    \/ Running /\ QueryRoom /\ \E a \in Elts, prec \in PrecArgs, infer \in BOOLEAN : lift_to_precision(a, prec, infer)
    \/ Running /\ QueryRoom /\ \E a \in Elts, n \in Shifts : __lshift__(a, n)
    \/ Running /\ QueryRoom /\ \E a \in Elts, n \in Shifts : __rshift__(a, n)
    \/ Running /\ QueryRoom /\ \E a \in Elts, t \in CopyTargets : copy(a, t)
    \/ Running /\ QueryRoom /\ \E a \in Elts, b \in Elts : _cmp_(a, b)
    \/ Running /\ \E a \in Elts : Query_precision_absolute(a)
    \/ Running /\ \E a \in Elts, secure \in BOOLEAN : Query_valuation(a, secure)

QuerySpec == Init /\ [][QueryNext]_vars

----------------------------------------------------------------------------
(* The scenario of the docstrings of precision_absolute and                *)
(* lift_to_precision: x = R(1, 10); y = R(1, 5); u = x + y; v = x - y;     *)
(* u + v; u.lift_to_precision() + v                                        *)

ScnPrecX == 10
ScnPrecY == 5

ScnDomains ==
    { [policy |-> "cap", relcap |-> r, abscap |-> a, zero_cap |-> None, field |-> FALSE] :
        r \in {10, 20}, a \in 10..12 }

ScnInit ==
    /\ dom \in ScnDomains
    /\ els = <<>>
    /\ tracker = NewTracker(dom.relcap)
    /\ decl = <<>>
    /\ last = Last("init", 0, 0, None, "", None, 0)
    /\ inferred = FALSE
    /\ GraphEmpty

ScnNext ==
    \/ Len(els) = 0 /\ \E px \in (ScnPrecX - 2)..ScnPrecX : New(1, Some(px))
    \/ Len(els) = 1 /\ \E py \in (ScnPrecY - 1)..ScnPrecY : New(1, Some(py))
    \/ Len(els) = 2 /\ _add_(1, 2)
    \/ Len(els) = 3 /\ _sub_(1, 2)
    \/ Len(els) = 4 /\ _add_(3, 4)
    \/ Len(els) = 5 /\ lift_to_precision(3, None, FALSE)
    \/ Len(els) = 6 /\ _add_(6, 4)

ScnSpec == ScnInit /\ [][ScnNext]_vars

----------------------------------------------------------------------------
(* The scenario of the docstring of _cmp_: x and y are created, z is       *)
(* computed from them, and two of the three are compared                   *)

CmpNext ==
    \/ Len(els) < 2 /\ \E x \in RawValues, prec \in PrecArgs : New(x, prec)
    \/ Len(els) = 2 /\ _add_(1, 2)
    \/ Len(els) = 2 /\ _sub_(1, 2)
    \/ Len(els) = 2 /\ _mul_(1, 2)
    \/ Len(els) = 3 /\ \E a \in Elts, b \in Elts : _cmp_(a, b)

CmpSpec == Init /\ [][CmpNext]_vars

----------------------------------------------------------------------------
(* The tests of the docstrings of _add_ and _mul_: a + b == b + a and      *)
(* a * b == b * a                                                          *)

ComNext ==
    \/ Len(els) < 2 /\ \E x \in RawValues, prec \in PrecArgs : New(x, prec)
    \/ Len(els) = 2 /\ _add_(1, 2)
    \/ Len(els) = 2 /\ _mul_(1, 2)
    \/ Len(els) = 3 /\ last.op = "add" /\ _add_(2, 1)
    \/ Len(els) = 3 /\ last.op = "mul" /\ _mul_(2, 1)
    \/ Len(els) = 4 /\ _cmp_(3, 4)

ComSpec == Init /\ [][ComNext]_vars

----------------------------------------------------------------------------
(* The test of the docstring of _mul_: a * (b + c) == a*b + a*c             *)

\* the domains of Domains and the capped domains whose absolute cap is twice
\* their relative cap, as it is by default
DistDomains ==
    Domains \cup
    { [policy |-> "cap", relcap |-> CapRel, abscap |-> 2 * CapRel,
       zero_cap |-> None, field |-> f] : f \in BOOLEAN }

DistInit ==
    /\ dom \in DistDomains
    /\ els = <<>>
    /\ tracker = NewTracker(dom.relcap)
    /\ decl = <<>>
    /\ last = Last("init", 0, 0, None, "", None, 0)
    /\ inferred = FALSE
    /\ GraphEmpty

DistNext ==
    \/ Len(els) < 3 /\ \E x \in RawValues, prec \in PrecArgs : New(x, prec)
    \/ Len(els) = 3 /\ _add_(2, 3)
    \/ Len(els) = 4 /\ _mul_(1, 4)
    \/ Len(els) = 5 /\ _mul_(1, 2)
    \/ Len(els) = 6 /\ _mul_(1, 3)
    \/ Len(els) = 7 /\ _add_(6, 7)
    \/ Len(els) = 8 /\ _cmp_(5, 8)

DistSpec == DistInit /\ [][DistNext]_vars

----------------------------------------------------------------------------
(* The scenario of the docstring of copy: y = x.copy(); x - y, for an x    *)
(* that was created or computed                                            *)

CopyNext ==
    \/ Running /\ Len(els) = 0 /\ \E x \in RawValues, prec \in PrecArgs : New(x, prec)
    \/ Running /\ Len(els) = 1 /\ __invert__(1)
    \/ Running /\ Len(els) = 1 /\ \E n \in Shifts : __rshift__(1, n)
    \/ Running /\ Len(els) = 1 /\ \E k \in 0..MaxPrec : add_bigoh(1, k)
    \/ Running /\ Len(els) = 2 /\ copy(2, "None")
    \/ Running /\ Len(els) = 3 /\ _sub_(3, 2)
    \/ Running /\ Len(els) = 3 /\ _sub_(2, 3)

CopySpec == Init /\ [][CopyNext]_vars

----------------------------------------------------------------------------
(* The scenarios of the docstring of __rshift__: x is created and shifted  *)
(* to the right, or shifted to the left and then back                      *)

\* the values x is created from: every residue modulo p^CapAbs
ShiftValues == 0..(Pow(CapAbs) - 1)

ShiftNext ==
    \/ Len(els) = 0 /\ \E x \in ShiftValues, prec \in PrecArgs : New(x, prec)
    \/ Len(els) = 1 /\ \E n \in 0..MaxPrec : __rshift__(1, n)
    \/ Len(els) = 1 /\ \E n \in (-MaxPrec)..MaxPrec : __lshift__(1, n)
    \/ Len(els) = 2 /\ last.op = "lshift" /\ __rshift__(2, last.arg[1])

ShiftSpec == DistInit /\ [][ShiftNext]_vars

----------------------------------------------------------------------------
(* The scenario of the docstring of add_bigoh: x is created, or is the     *)
(* square of a created element, and add_bigoh is called on x and then on   *)
(* the result                                                              *)

\* the precisions handed to add_bigoh: integers and infinity
BigOhPrecs == ((-1)..(MaxPrec + 1)) \cup {Infinity}

\* element e was returned by add_bigoh
FromBigOh(e) == decl[e].prec # None /\ decl[e].dx # <<>>

BigOhNext ==
    \/ Len(els) = 0 /\ \E x \in RawValues, prec \in PrecArgs : New(x, prec)
    \/ Len(els) = 1 /\ _mul_(1, 1)
    \/ last.op \in {"new", "mul"} /\ \E prec \in BigOhPrecs : add_bigoh(Len(els), prec)
    \/ last.op = "add_bigoh" /\ ~FromBigOh(last.self)
         /\ \E prec \in BigOhPrecs : add_bigoh(last.new, prec)

BigOhSpec == Init /\ [][BigOhNext]_vars

----------------------------------------------------------------------------
(* The scenarios of the docstrings of unit_part and val_unit: they are     *)
(* called on elements that were created or computed                        *)

UnitNext ==
    \/ Running /\ QueryRoom /\ \E x \in RawValues, prec \in PrecArgs : New(x, prec)
    \/ Running /\ QueryRoom /\ \E a \in Elts, b \in Elts : _sub_(a, b)
    \/ Running /\ QueryRoom /\ \E a \in Elts, b \in Elts : _mul_(a, b)
    \/ Running /\ QueryRoom /\ \E a \in Elts, b \in Elts : _div_(a, b)
    \/ Running /\ QueryRoom /\ \E a \in Elts, n \in Shifts : __lshift__(a, n)
    \/ Running /\ Len(els) <= MaxQueryEls /\ \E a \in Elts : unit_part(a)
    \/ Running /\ Len(els) <= MaxQueryEls /\ \E a \in Elts : val_unit(a)

UnitSpec == DistInit /\ [][UnitNext]_vars

----------------------------------------------------------------------------
(* BipartiteGraph: a Graph with its vertices split into left and right.    *)
(* A graph is a record of its vertices, its edges, left and right; the     *)
(* methods of the base class Graph act on the vertices and the edges.      *)

MaxVertex == 2
MaxList == 2
MaxDeleted == 3

\* the names of the vertices
Vertices == 0..MaxVertex

\* the lists of vertices handed to add_vertices, repetitions included; a
\* list in another order adds the same vertices with the same flags
VertexLists ==
    {vs \in UNION {[1..n -> Vertices] : n \in 0..MaxList} :
        \A i \in 1..Len(vs) : \A j \in 1..Len(vs) : i <= j => vs[i] <= vs[j]}

\* the lists of vertices handed to delete_vertices
DeletedLists == UNION {[1..n -> Vertices] : n \in 0..MaxDeleted}

\* the argument of add_vertex(name=None, ...)
VertexNames == {None} \cup {Some(v) : v \in Vertices}

\* left= and right= of add_vertices: a boolean or a list of booleans
Scalar(b) == [list |-> FALSE, val |-> b, vals |-> <<>>]

FlagList(fs) == [list |-> TRUE, val |-> FALSE, vals |-> fs]

Flags(n) == {Scalar(b) : b \in BOOLEAN} \cup {FlagList(fs) : fs \in [1..n -> BOOLEAN]}

\* the truth value of a flag: a list is true when it is not empty
Truthy(f) == IF f.list THEN Len(f.vals) > 0 ELSE f.val

\* set(vertices)
Range(vs) == {vs[i] : i \in 1..Len(vs)}

\* the graph as it is
GraphState == [vertices |-> vertices, edges |-> edges, left |-> left, right |-> right]

\* what a method did: the graph it left, and the exception it raised if any
Done(G) == [graph |-> G, err |-> ""]

Raised(G, e) == [graph |-> G, err |-> e]

\* Graph.add_vertex(name): the name given, or a new one, joins the vertices
Graph_new_name(G) ==
    CHOOSE n \in Vertices \ G.vertices : \A m \in Vertices \ G.vertices : n <= m

Graph_add_vertices(G, names) == [G EXCEPT !.vertices = @ \cup names]

\* Graph.delete_vertices: the vertices go with their edges
Graph_delete_vertices(G, names) ==
    [G EXCEPT !.vertices = @ \ names,
              !.edges = {e \in @ : e \cap names = {}}]

Graph_add_edge(G, u, v) == [G EXCEPT !.edges = @ \cup {{u, v}}]

add_vertex_error(G, name, l, r) ==
    IF l /\ r THEN "Only one partition may be specified."
    ELSE IF ~(l \/ r) THEN "Partition must be specified (e.g. left=True)."
    ELSE IF /\ name # None
            /\ name[1] \in G.vertices
            /\ ~((name[1] \in G.left /\ l) \/ (name[1] \in G.right /\ r))
         THEN "Cannot add duplicate vertex to other partition."
    ELSE ""

\* the vertex v joins the graph and its partition
add_vertex_placed(G, v, l) ==
    IF l
    THEN [Graph_add_vertices(G, {v}) EXCEPT !.left = @ \cup {v}]
    ELSE [Graph_add_vertices(G, {v}) EXCEPT !.right = @ \cup {v}]

add_vertex_in(G, name, l, r) ==
    IF add_vertex_error(G, name, l, r) # ""
    THEN Raised(G, add_vertex_error(G, name, l, r))
    ELSE IF name # None /\ name[1] \in G.vertices
    THEN Done(G)
    ELSE Done(add_vertex_placed(G, IF name = None THEN Graph_new_name(G) ELSE name[1], l))

\* the list of flags add_vertices works with: left, or right negated
left_flags(l, r) ==
    IF Truthy(r) THEN [i \in 1..Len(r.vals) |-> ~r.vals[i]] ELSE l.vals

\* the vertices zip(left, vertices) pairs with the flag tf
zipped(fl, vs, tf) ==
    {vs[i] : i \in {j \in 1..Min(Len(fl), Len(vs)) : fl[j] = tf}}

new_left(vs, l, r) ==
    IF Truthy(l) /\ ~l.list THEN Range(vs)
    ELSE IF Truthy(r) /\ ~r.list THEN {}
    ELSE zipped(left_flags(l, r), vs, TRUE)

new_right(vs, l, r) ==
    IF Truthy(l) /\ ~l.list THEN {}
    ELSE IF Truthy(r) /\ ~r.list THEN Range(vs)
    ELSE zipped(left_flags(l, r), vs, FALSE)

add_vertices_error(G, vs, l, r) ==
    IF Truthy(l) /\ Truthy(r) THEN "Only one partition may be specified."
    ELSE IF ~(Truthy(l) \/ Truthy(r)) THEN "Partition must be specified (e.g. left=True)."
    ELSE IF \/ new_left(vs, l, r) \cap G.right # {}
            \/ new_right(vs, l, r) \cap G.left # {}
            \/ new_right(vs, l, r) \cap new_left(vs, l, r) # {}
         THEN "Cannot add duplicate vertex to other partition."
    ELSE ""

\* add_vertices that adds the vertices to the graph before it looks for
\* vertices of the other partition
add_vertices_then_check(G, vs, l, r) ==
    IF add_vertices_error(G, vs, l, r) \in {"Only one partition may be specified.",
                                            "Partition must be specified (e.g. left=True)."}
    THEN Raised(G, add_vertices_error(G, vs, l, r))
    ELSE IF add_vertices_error(G, vs, l, r) # ""
    THEN Raised(Graph_add_vertices(G, Range(vs)), add_vertices_error(G, vs, l, r))
    ELSE Done([Graph_add_vertices(G, Range(vs))
                  EXCEPT !.left = @ \cup new_left(vs, l, r),
                         !.right = @ \cup new_right(vs, l, r)])

add_vertices_in(G, vs, l, r) ==
    IF add_vertices_error(G, vs, l, r) # ""
    THEN Raised(G, add_vertices_error(G, vs, l, r))
    ELSE Done([Graph_add_vertices(G, Range(vs))
                  EXCEPT !.left = @ \cup new_left(vs, l, r),
                         !.right = @ \cup new_right(vs, l, r)])

\* the loop of delete_vertices over vs from position i on: each vertex
\* leaves left, or else right, and the first one found in neither raises
RECURSIVE remove_from_partitions(_, _, _)
remove_from_partitions(G, vs, i) ==
    IF i > Len(vs) THEN Done(G)
    ELSE IF vs[i] \in G.left
    THEN remove_from_partitions([G EXCEPT !.left = @ \ {vs[i]}], vs, i + 1)
    ELSE IF vs[i] \in G.right
    THEN remove_from_partitions([G EXCEPT !.right = @ \ {vs[i]}], vs, i + 1)
    ELSE Raised(G, "Vertex not found in partitions")

\* delete_vertices that takes every listed vertex out of left and right at once
delete_vertices_from_sets(G, vs) ==
    IF Range(vs) \ G.vertices # {}
    THEN Raised(G, "Vertex not in the graph.")
    ELSE Done([Graph_delete_vertices(G, Range(vs))
                  EXCEPT !.left = @ \ Range(vs), !.right = @ \ Range(vs)])

delete_vertices_in(G, vs) ==
    IF Range(vs) \ G.vertices # {}
    THEN Raised(G, "Vertex not in the graph.")
    ELSE remove_from_partitions(Graph_delete_vertices(G, Range(vs)), vs, 1)

\* self.vertices()[i]: the vertex that has i vertices below it
vertex_in_order(G, i) == CHOOSE v \in G.vertices : Cardinality({w \in G.vertices : w < v}) = i

delete_vertex_in(G, vertex, in_order) ==
    IF in_order /\ vertex >= Cardinality(G.vertices)
    THEN Raised(G, "IndexError")
    ELSE delete_vertices_in(G, <<IF in_order THEN vertex_in_order(G, vertex) ELSE vertex>>)

\* the first endpoint joins the graph if it is new
add_edge_first(G, u, v) ==
    IF u \notin G.vertices
    THEN add_vertex_in(G, Some(u), v \in G.right \/ v \notin G.vertices, v \in G.left)
    ELSE Done(G)

\* the second endpoint joins the graph if it is new
add_edge_second(G, u, v) ==
    IF v \notin G.vertices
    THEN add_vertex_in(G, Some(v), u \in G.right, u \in G.left)
    ELSE Done(G)

add_edge_in(G, u, v) ==
    IF {u, v} \subseteq G.left \/ {u, v} \subseteq G.right
    THEN Raised(G, "Edge vertices must lie in different partitions.")
    ELSE IF add_edge_first(G, u, v).err # ""
    THEN add_edge_first(G, u, v)
    ELSE IF add_edge_second(add_edge_first(G, u, v).graph, u, v).err # ""
    THEN add_edge_second(add_edge_first(G, u, v).graph, u, v)
    ELSE Done(Graph_add_edge(add_edge_second(add_edge_first(G, u, v).graph, u, v).graph,
                             u, v))

\* the neighbours of v in G
neighbors(G, v) == {w \in G.vertices : {v, w} \in G.edges}

\* the edges (v, w) for v in vs, u a neighbour of v and w a neighbour of u,
\* without the loops
two_paths(G, vs) ==
    {e \in SUBSET Vertices :
        /\ Cardinality(e) = 2
        /\ \E v \in e \cap vs : \E u \in neighbors(G, v) : e \ {v} \subseteq neighbors(G, u)}

\* G = Graph(); G.add_vertices(vs); G.add_edges(the 2-paths from vs)
projection(G, vs) ==
    [vertices |-> vs \cup UNION two_paths(G, vs), edges |-> two_paths(G, vs)]

project_left_of(G) == projection(G, G.left)

project_right_of(G) == projection(G, G.left)

\* the call op did r: the graph is what it left, last what it raised
GraphCalled(op, u, v, arg, r) ==
    /\ vertices' = r.graph.vertices
    /\ edges' = r.graph.edges
    /\ left' = r.graph.left
    /\ right' = r.graph.right
    /\ last' = Last(op, u, v, arg, r.err, None, 0)
    /\ UNCHANGED <<dom, els, tracker, decl, inferred>>

\* the call op returned the graph P
GraphProjected(op, P) ==
    /\ last' = Last(op, 0, 0, None, "", Some(P), 0)
    /\ UNCHANGED <<dom, els, tracker, decl, inferred, gvars>>

add_vertex(name, l, r) ==
    /\ name = None => Vertices \ vertices # {}
    /\ GraphCalled("add_vertex", 0, 0, name, add_vertex_in(GraphState, name, l, r))

add_vertices(vs, l, r) ==
    GraphCalled("add_vertices", 0, 0, Some(vs), add_vertices_in(GraphState, vs, l, r))

delete_vertex(vertex, in_order) ==
    GraphCalled("delete_vertex", vertex, 0, None, delete_vertex_in(GraphState, vertex, in_order))

delete_vertices(vs) ==
    GraphCalled("delete_vertices", 0, 0, Some(vs), delete_vertices_in(GraphState, vs))

add_edge(u, v) ==
    GraphCalled("add_edge", u, v, None, add_edge_in(GraphState, u, v))

project_left == GraphProjected("project_left", project_left_of(GraphState))

project_right == GraphProjected("project_right", project_right_of(GraphState))

\* BipartiteGraph() in a session that computes nothing else
GraphInit == Init /\ dom.policy = "cap" /\ ~dom.field

GraphNext ==
    \/ \E name \in VertexNames, l \in BOOLEAN, r \in BOOLEAN : add_vertex(name, l, r)
    \/ \E vs \in VertexLists : \E l \in Flags(Len(vs)), r \in Flags(Len(vs)) :
           add_vertices(vs, l, r)
    \/ \E vertex \in Vertices, in_order \in BOOLEAN : delete_vertex(vertex, in_order)
    \/ \E vs \in DeletedLists : delete_vertices(vs)
    \/ \E u \in Vertices : \E v \in Vertices \ {u} : add_edge(u, v)
    \/ project_left
    \/ project_right

GraphSpec == GraphInit /\ [][GraphNext]_vars

----------------------------------------------------------------------------
(* Properties *)

\* C1 as stated: in every reachable state, lifts with infer_precision=True
\* included, every live element's truncation precision t is at least the
\* absolute precision precision_absolute() reports for it now
C1_AsStated ==
    \A e \in Elts : decl[e].trunc >= precision_absolute(e)

\* C1, amended: every live element's stored value is its raw value reduced to
\* the truncation precision t; t is at least the absolute precision the
\* element had when it was created, and at least the absolute precision it has
\* now as long as no lift_to_precision(infer_precision=True) has run on the
\* precision object
C1_NeverUnderRepresented ==
    \A e \in Elts :
        /\ els[e].value = preduce(decl[e].raw, decl[e].trunc)
        /\ decl[e].trunc >= decl[e].prec0
        /\ ~inferred => decl[e].trunc >= precision_absolute(e)

\* an element computed from others whose value was really truncated, after a
\* lift that dropped the correlations
C1_Witness ==
    /\ ~inferred
    /\ last.op = "lift_to_precision"
    /\ \E e \in Elts :
        /\ decl[e].dx # <<>>
        /\ decl[e].raw # els[e].value
        /\ decl[e].trunc >= precision_absolute(e)

\* C2: as long as no lift_to_precision(infer_precision=True) has run on the
\* precision object, no element (the temporary of a comparison included) has an
\* absolute precision larger than the one it had when it was created
C2_MonotonicPrecision ==
    ~inferred => \A e \in 1..Len(els) : precision_absolute(e) <= decl[e].prec0

\* a comparison, which declares a temporary to the precision object, has run
\* after a computed element was created
C2_Witness ==
    /\ ~inferred
    /\ last.op = "cmp"
    /\ \E e \in Elts :
        /\ e < last.new
        /\ decl[e].dx # <<>>
        /\ precision_absolute(e) <= decl[e].prec0

\* the scenario has run to its end with x = element(1, 10), y = element(1, 5)
ScnDone ==
    /\ Len(els) = 7
    /\ decl[1].prec = Some(ScnPrecX)
    /\ decl[2].prec = Some(ScnPrecY)

\* C3 as stated: with absolute cap 10, u and v have absolute precision 5,
\* u + v has 11 and u.lift_to_precision() + v has 5
C3_AsStated ==
    ScnDone /\ dom.abscap = 10 =>
        /\ precision_absolute(3) = 5
        /\ precision_absolute(4) = 5
        /\ precision_absolute(5) = 11
        /\ precision_absolute(7) = 5

\* C3, amended: u and v have absolute precision 5, u + v has 11 cut at the
\* absolute cap of the domain (10 when the cap is 10, 11 only when the cap is
\* at least 11), and u.lift_to_precision() + v has 5
C3_DiffusedDigits ==
    ScnDone =>
        /\ precision_absolute(3) = 5
        /\ precision_absolute(4) = 5
        /\ precision_absolute(5) = Min(11, dom.abscap)
        /\ precision_absolute(7) = 5

\* the scenario at absolute cap 10, where u + v is cut at the cap
C3_Witness ==
    /\ ScnDone
    /\ dom.abscap = 10
    /\ last.op = "add"
    /\ precision_absolute(5) = 10
    /\ precision_absolute(7) = 5

\* C4: what a call of precision_absolute() returns is min(P, v + R), where P is
\* what the precision object reports for the element in the state of the call,
\* v the exact valuation of the stored value and R the relative cap of the
\* domain; it is not a value kept from an earlier call
C4_PrecisionAbsolute ==
    last.op = "precision_absolute" =>
        /\ last.err = ""
        /\ last.ret = Some(Min(_precision_absolute(tracker, last.self),
                               ValPlus(pvaluation(els[last.self].value), dom.relcap)))

\* a query that follows a lift with infer_precision=True and returns something
\* else than the precision the element had when it was created
C4_Witness ==
    /\ last.op = "precision_absolute"
    /\ inferred
    /\ last.ret # Some(decl[last.self].prec0)

\* C7: valuation(secure=False) never fails and returns the minimum of the exact
\* valuation of the stored value and precision_absolute(); valuation(secure=True)
\* returns the exact valuation when it is strictly less than
\* precision_absolute() and fails with a precision error otherwise
C7_Valuation ==
    last.op = "valuation" =>
        LET val  == pvaluation(els[last.self].value)
            prec == precision_absolute(last.self)
        IN  IF last.arg = Some(FALSE)
            THEN last.err = "" /\ last.ret = Some(Min(val, prec))
            ELSE IF val < prec
            THEN last.err = "" /\ last.ret = Some(val)
            ELSE last.err = "PrecisionError" /\ last.ret = None

\* a secure valuation that failed on an element computed from another one
C7_Witness ==
    /\ last.op = "valuation"
    /\ last.arg = Some(TRUE)
    /\ last.err = "PrecisionError"
    /\ decl[last.self].dx # <<>>

\* C5: in a capped domain, with cap = min(absolute cap, relative cap + exact
\* valuation of the raw value), every element given an explicit precision not
\* larger than cap is registered with bigoh = that precision and capped = False
\* and truncated at that precision; every other element is registered with
\* bigoh = cap and capped = True and truncated at cap.  The stored value is the
\* raw value reduced to the truncation precision
C5_CappedDeclaration ==
    dom.policy = "cap" =>
        \A e \in 1..Len(els) :
            LET cap == Min(dom.abscap, ValPlus(pvaluation(decl[e].raw), dom.relcap))
            IN  /\ IF decl[e].prec # None /\ decl[e].prec[1] <= cap
                   THEN /\ decl[e].bigoh = decl[e].prec
                        /\ ~decl[e].capped
                        /\ decl[e].trunc = decl[e].prec[1]
                   ELSE /\ decl[e].bigoh = Some(cap)
                        /\ decl[e].capped
                        /\ decl[e].trunc = cap
                /\ _is_precision_capped(tracker, e) = decl[e].capped
                /\ els[e].value = preduce(decl[e].raw, decl[e].trunc)

\* a capped domain with an element whose explicit precision was kept and one
\* whose explicit precision was cut at the relative cap
C5_Witness ==
    /\ dom.policy = "cap"
    /\ \E e \in Elts, f \in Elts :
        /\ decl[e].prec # None /\ ~decl[e].capped
        /\ decl[f].prec # None /\ decl[f].capped
        /\ decl[f].trunc < dom.abscap
        /\ decl[f].trunc < decl[f].prec[1]

\* C6: in a floating domain the element just created was registered with the
\* explicit precision unchanged as bigoh and not capped, and its truncation
\* precision is min(internal precision of the precision object after the
\* registration + exact valuation of the raw value, explicit precision), a
\* missing explicit precision counting as +infinity
C6_FloatDeclaration ==
    dom.policy = "float" /\ last.new # 0 =>
        LET e == last.new
        IN  /\ decl[e].bigoh = decl[e].prec
            /\ ~decl[e].capped
            /\ ~_is_precision_capped(tracker, e)
            /\ decl[e].trunc =
                 Min(ValPlus(pvaluation(decl[e].raw), internal_prec(tracker)),
                     IF decl[e].prec = None THEN Infinity ELSE decl[e].prec[1])

\* the registration of the element just created raised the internal
\* precision, and the truncation precision comes from the raised one
C6_Witness ==
    /\ dom.policy = "float"
    /\ last.new = 2
    /\ tracker.count = 2
    /\ internal_prec(tracker) > dom.relcap + StartingAdditionalPrec
    /\ decl[2].prec = None
    /\ decl[2].trunc = pvaluation(decl[2].raw) + internal_prec(tracker)

\* C8: a step that is a division a / b or an inversion ~b fails with a
\* precision error exactly when b.is_zero() holds before it; when it fails no
\* element is declared and no element's value or precision changes; when it
\* succeeds the result is a new element of the fraction field
C8_DivisionByZero ==
    [][last'.op \in {"div", "invert"} =>
        LET b == IF last'.op = "div" THEN last'.other ELSE last'.self
        IN  /\ (last'.err = "PrecisionError") <=> is_zero(b, None)
            /\ last'.err \in {"", "PrecisionError"}
            /\ last'.err # "" =>
                 /\ last'.new = 0
                 /\ els' = els /\ tracker' = tracker /\ decl' = decl
            /\ last'.err = "" =>
                 /\ last'.new = Len(els) + 1
                 /\ Len(els') = Len(els) + 1
                 /\ els'[Len(els')].field
                 /\ els'[Len(els')].live]_vars

\* an element that is not zero was divided by another one that is
\* indistinguishable from zero
C8_Witness ==
    /\ last.op = "div"
    /\ last.err = "PrecisionError"
    /\ last.self # last.other
    /\ ~is_zero(last.self, None)
    /\ is_zero(last.other, None)

\* the exact sum or difference of the operands of the last operation
C9_Exact ==
    IF last.op = "add" THEN padd(els[last.self].value, els[last.other].value)
    ELSE psub(els[last.self].value, els[last.other].value)

C9_Bound ==
    ValPlus(Min(pvaluation(els[last.self].value), pvaluation(els[last.other].value)),
            dom.zero_cap[1])

\* C9 as stated: the value add and sub pass to the constructor is zero when the
\* domain has a zero cap and the exact result has valuation strictly greater
\* than min(valuation(a), valuation(b)) + zero cap, and the exact result
\* otherwise, also when the valuation equals that bound
C9_AsStated ==
    last.op \in {"add", "sub"} =>
        decl[last.new].raw =
            IF dom.zero_cap # None /\ pvaluation(C9_Exact) > C9_Bound
            THEN Zero ELSE C9_Exact

\* C9, amended: the value add and sub pass to the constructor is zero when the
\* domain has a zero cap and the exact result has valuation greater than or
\* equal to min(valuation(a), valuation(b)) + zero cap, and the exact result
\* otherwise; without a zero cap it is always the exact result
C9_ZeroCollapse ==
    last.op \in {"add", "sub"} =>
        decl[last.new].raw =
            IF dom.zero_cap # None /\ pvaluation(C9_Exact) >= C9_Bound
            THEN Zero ELSE C9_Exact

\* a sum that is not zero, whose valuation equals the bound, was forced to zero
C9_Witness ==
    /\ last.op = "add"
    /\ dom.zero_cap # None
    /\ C9_Exact # Zero
    /\ pvaluation(C9_Exact) = C9_Bound
    /\ decl[last.new].raw = Zero

\* the differential C10 states for the last operation, a shift being by n
C10_Stated(n) ==
    LET a  == last.self
        b  == last.other
    IN  CASE last.op = "add" -> << <<a, One>>, <<b, One>> >>
          [] last.op = "sub" -> << <<a, One>>, <<b, MinusOne>> >>
          [] last.op = "mul" -> << <<a, els[b].value>>, <<b, els[a].value>> >>
          [] last.op = "div" ->
                << <<a, pdiv(One, els[b].value)>>,
                   <<b, pneg(pdiv(els[a].value, pmul(els[b].value, els[b].value)))>> >>
          [] last.op = "invert" ->
                << <<a, pneg(pdiv(One, pmul(els[a].value, els[a].value)))>> >>
          [] last.op \in {"lshift", "rshift"} -> << <<a, powp(n)>> >>
          [] OTHER -> << <<a, One>> >>

C10_Ops == {"add", "sub", "mul", "div", "invert", "lshift", "rshift", "copy", "add_bigoh"}

\* how far the last operation, a shift, shifted to the left
C10_Shift == IF last.op = "rshift" THEN -last.arg[1] ELSE last.arg[1]

\* the last operation was a shift in a ring that left no digit
C10_ShiftedOut ==
    /\ last.op \in {"lshift", "rshift"}
    /\ ~els[last.self].field
    /\ ValPlus(precision_absolute(last.self), C10_Shift) < 0

\* C10 as stated: add declares [(a,1),(b,1)], sub [(a,1),(b,-1)], mul
\* [(a, value(b)), (b, value(a))], div [(a, 1/value(b)), (b, -value(a)/value(b)^2)],
\* invert [(self, -1/value(self)^2)], every shift by n [(self, p^n)], copy and
\* add_bigoh [(self,1)], at the full stored values
C10_AsStated ==
    last.op \in C10_Ops /\ last.err = "" =>
        decl[last.new].dx =
            C10_Stated(IF last.op \in {"lshift", "rshift"} THEN C10_Shift ELSE 0)

\* C10, amended: as stated, except that a shift by n in a ring with
\* precision_absolute() + n < 0 declares the exact zero it returns with an
\* empty differential
C10_Differentials ==
    last.op \in C10_Ops /\ last.err = "" =>
        decl[last.new].dx =
            IF C10_ShiftedOut THEN <<>>
            ELSE C10_Stated(IF last.op \in {"lshift", "rshift"} THEN C10_Shift ELSE 0)

\* an element whose stored value has more digits than its absolute precision
\* was multiplied by itself
C10_Witness ==
    /\ last.op = "mul"
    /\ last.self = last.other
    /\ approximation(last.self) # els[last.self].value
    /\ decl[last.new].dx = << <<last.self, els[last.self].value>>,
                              <<last.self, els[last.self].value>> >>

\* C11: a comparison a == b returns equal exactly when the difference a - b it
\* declared is_zero(); the comparison of the stored rationals it falls back to
\* when the difference is not zero never returns equal
C11_Equality ==
    last.op = "cmp" =>
        /\ last.err = ""
        /\ (last.ret = Some(0)) <=> is_zero(last.new, None)
        /\ ~is_zero(last.new, None) => lift(last.self) # lift(last.other)
        /\ els[last.new].value =
             preduce(IF zero_collapse(psub(lift(last.self), lift(last.other)),
                                      lift(last.self), lift(last.other))
                     THEN Zero ELSE psub(lift(last.self), lift(last.other)),
                     decl[last.new].trunc)

\* two elements with the same approximation and the same absolute precision
\* were compared and found different
C11_Witness ==
    /\ last.op = "cmp"
    /\ last.ret # Some(0)
    /\ approximation(last.self) = approximation(last.other)
    /\ precision_absolute(last.self) = precision_absolute(last.other)

\* C12: for elements a and b of one domain, a + b == b + a and a * b == b * a:
\* the comparison of the two results returns equal, and it does so because
\* their difference is_zero()
C12_Commutativity ==
    Len(els) = 5 /\ last.op = "cmp" =>
        /\ last.ret = Some(0)
        /\ is_zero(5, None)
        /\ decl[5].dx = << <<3, One>>, <<4, MinusOne>> >>

\* the two products of two different elements, neither of them zero, were
\* compared
C12_Witness ==
    /\ Len(els) = 5
    /\ last.op = "cmp"
    /\ last.ret = Some(0)
    /\ decl[3].dx = << <<1, els[2].value>>, <<2, els[1].value>> >>
    /\ decl[4].dx = << <<2, els[1].value>>, <<1, els[2].value>> >>
    /\ els[1].value # els[2].value
    /\ els[3].value # Zero

\* C13: for elements a, b and c of one domain, a * (b + c) == a*b + a*c: the
\* comparison of the two results returns equal because their difference
\* is_zero()
C13_Distributivity ==
    Len(els) = 9 /\ last.op = "cmp" =>
        /\ last.ret = Some(0)
        /\ is_zero(9, None)

\* a * b was truncated, and the two results are stored as different
\* rationals that the comparison finds equal
C13_Witness ==
    /\ Len(els) = 9
    /\ last.op = "cmp"
    /\ last.ret = Some(0)
    /\ decl[6].raw # els[6].value
    /\ els[5].value # els[8].value
    /\ els[9].value # Zero

\* the difference of x = element 2 and its copy has been computed
C14_Done == Len(els) = 4 /\ last.op = "sub"

\* C14 as stated: x.copy() has the stored value of x, and x.copy() - x and
\* x - x.copy() have stored value exactly zero, are is_zero() and have an
\* absolute precision at least the cap of the domain (the smaller of its caps,
\* the relative one)
C14_AsStated ==
    C14_Done =>
        /\ els[3].value = els[2].value
        /\ els[4].value = Zero
        /\ is_zero(4, None)
        /\ precision_absolute(4) >= dom.relcap

\* C14, amended: x.copy() has the stored value of x, and x.copy() - x and
\* x - x.copy() have stored value exactly zero, are is_zero() and have an
\* absolute precision at least min(absolute cap, relative cap + valuation of
\* x), the precision a copy of x is capped at
C14_CopyAliasing ==
    C14_Done =>
        /\ els[3].value = els[2].value
        /\ els[4].value = Zero
        /\ is_zero(4, None)
        /\ precision_absolute(4) >=
             Min(dom.abscap, ValPlus(pvaluation(els[2].value), dom.relcap))

\* the difference has more precision than x itself
C14_Witness ==
    /\ C14_Done
    /\ els[2].value # Zero
    /\ precision_absolute(4) # Infinity
    /\ precision_absolute(4) > precision_absolute(2)

\* C15: a step copy(target) fails with the incompatible-domain error
\* (TypeError) whenever target has another precision object or none, whatever
\* the valuation of the element; with the element's precision object it fails
\* with the negative-valuation error (ValueError) when target is a ring and
\* valuation() < 0; a failure declares nothing and changes no element; copy()
\* without a target never fails
C15_CopyErrors ==
    [][last'.op = "copy" =>
        /\ last'.err =
             IF last'.arg \in {"other_ring", "other_field", "no_precision"} THEN "TypeError"
             ELSE IF last'.arg = "ring" /\ valuation(last'.self, FALSE).ret < 0
             THEN "ValueError"
             ELSE ""
        /\ last'.err # "" =>
             /\ last'.new = 0
             /\ els' = els /\ tracker' = tracker /\ decl' = decl
        /\ last'.err = "" =>
             /\ Len(els') = Len(els) + 1
             /\ decl'[Len(els')].dx = << <<last'.self, One>> >>]_vars

\* an element of negative valuation was copied to a ring with another
\* precision object, which failed on the precision object
C15_Witness ==
    /\ last.op = "copy"
    /\ last.arg = "other_ring"
    /\ last.err = "TypeError"
    /\ pvaluation(els[last.self].value) < 0

\* value(x) * p^n for the last operation, a shift of x
C16_Scaled == pmul(els[last.self].value, powp(C10_Shift))

\* f is a sum of terms of negative valuation: a rational in [0, 1) whose
\* denominator is a power of p
C16_NegativeTerms(f) ==
    /\ 0 <= f.n /\ f.n < f.d
    /\ Pow(VpInt(f.d)) = f.d

\* C16: x << n in a ring returns exact zero with explicit precision 0 and an
\* empty differential when precision_absolute() + n < 0, and otherwise
\* value(x) * p^n without its terms of negative valuation, so that the stored
\* value never has negative valuation; in a field it returns value(x) * p^n
\* whole; x >> n is x << (-n)
C16_ShiftTruncation ==
    last.op \in {"lshift", "rshift"} =>
        LET d == decl[last.new]
        IN  /\ last.err = ""
            /\ IF C10_ShiftedOut
               THEN d.raw = Zero /\ d.prec = Some(0) /\ d.dx = <<>>
               ELSE /\ d.prec = None
                    /\ IF els[last.self].field
                       THEN d.raw = C16_Scaled
                       ELSE /\ C16_NegativeTerms(psub(C16_Scaled, d.raw))
                            /\ pvaluation(d.raw) >= 0
                            /\ pvaluation(els[last.new].value) >= 0
            /\ els[last.new].field = els[last.self].field

\* a right shift in a ring removed a term of negative valuation and left
\* something
C16_Witness ==
    /\ last.op = "rshift"
    /\ ~els[last.self].field
    /\ ~C10_ShiftedOut
    /\ pvaluation(C16_Scaled) < 0
    /\ decl[last.new].raw # Zero

\* the digit of position i of a stored value of a ring, an integer a >= 0
C17_Digit(a, i) == (a.n \div Pow(i)) % Prime

\* x = element 1 was shifted to the right by n with 0 <= n <= x.precision_absolute()
C17_Shifted ==
    /\ Len(els) = 2
    /\ last.op = "rshift"
    /\ ~els[1].field
    /\ last.arg[1] <= precision_absolute(1)

\* the positions of the digits that x >> n knows; an exact element knows
\* every digit, and none of its digits beyond p^CapAbs is set
C17_Positions ==
    IF precision_absolute(2) # Infinity
    THEN 0..(precision_absolute(2) - 1)
    ELSE 0..CapAbs

\* the precision and the digits C17 states for x >> n
C17_Dropped ==
    /\ precision_absolute(2) = ValPlus(precision_absolute(1), -last.arg[1])
    /\ \A i \in C17_Positions :
         C17_Digit(els[2].value, i) = C17_Digit(els[1].value, i + last.arg[1])

\* C17 as stated: in every ring domain, for 0 <= n <= x.precision_absolute(),
\* x >> n has absolute precision x.precision_absolute() - n and its digits
\* are the digits of x without the n lowest ones
C17_AsStated == C17_Shifted => C17_Dropped

\* C17, amended: the same in every capped ring domain
C17_RightShift == C17_Shifted /\ dom.policy = "cap" => C17_Dropped

\* a shift in a capped ring that dropped a digit that was not zero and left
\* a digit that was not zero
C17_Witness ==
    /\ C17_Shifted
    /\ dom.policy = "cap"
    /\ last.arg[1] > 0
    /\ C17_Digit(els[1].value, 0) # 0
    /\ precision_absolute(2) > 0
    /\ C17_Digit(els[2].value, 0) # 0

\* x = element 1 was shifted to the left by n and the result, element 2, to
\* the right by n
C18_Done == Len(els) = 3 /\ last.op = "rshift"

\* element 3 has the stored value and the absolute precision of x
C18_Restored ==
    /\ els[3].value = els[1].value
    /\ precision_absolute(3) = precision_absolute(1)

\* the first of the two shifts is a right shift that exceeds the valuation of x
C18_ExceedsValuation ==
    /\ last.arg[1] < 0
    /\ -last.arg[1] > valuation(1, FALSE).ret

\* the absolute cap does not truncate x << n
C18_Untruncated == ValPlus(precision_absolute(1), last.arg[1]) <= dom.abscap

\* C18 as stated: in a field (x << n) >> n always has the stored value and
\* the absolute precision of x; in a ring it has, unless a right shift
\* exceeds the valuation of x
C18_AsStated ==
    C18_Done => IF els[1].field THEN C18_Restored
                ELSE ~C18_Restored => C18_ExceedsValuation

\* C18, amended: the same as long as the absolute cap does not truncate x << n
C18_RoundTrip ==
    C18_Done /\ C18_Untruncated =>
        IF els[1].field THEN C18_Restored
        ELSE ~C18_Restored => C18_ExceedsValuation

\* a round trip in a field, through a right shift beyond the valuation of x,
\* that restored an element that is not zero
C18_Witness ==
    /\ C18_Done
    /\ C18_Untruncated
    /\ els[1].field
    /\ C18_ExceedsValuation
    /\ els[1].value # Zero
    /\ C18_Restored

\* the element the add_bigoh of the step is called on, and the one it returns
C19_Self == last'.self
C19_New == last'.new

\* C19: add_bigoh(prec) returns an element of absolute precision
\* min(x.precision_absolute(), prec), so that a second add_bigoh never has
\* more precision than the first one asked for, and leaves x as it was
C19_AddBigOh ==
    [][last'.op = "add_bigoh" =>
         /\ precision_absolute_at(els', tracker', C19_New)
              = Min(precision_absolute_at(els, tracker, C19_Self), last'.arg[1])
         /\ FromBigOh(C19_Self) =>
              precision_absolute_at(els', tracker', C19_New) <= decl[C19_Self].prec[1]
         /\ els'[C19_Self] = els[C19_Self]
         /\ precision_absolute_at(els', tracker', C19_Self)
              = precision_absolute_at(els, tracker, C19_Self)]_vars

\* the example of the docstring: a second add_bigoh that asked for more
\* precision than the first one, on an element that had more than both
C19_Witness ==
    /\ last.op = "add_bigoh"
    /\ FromBigOh(last.self)
    /\ last.arg[1] > decl[last.self].prec[1]
    /\ decl[last.self].prec[1] < precision_absolute(decl[last.self].dx[1][1])
    /\ precision_absolute(last.new) = decl[last.self].prec[1]

\* the last call was lift_to_precision(n, infer_precision=False), on x
C20_Lifted == last.op = "lift_to_precision" /\ last.err = "" /\ last.ret = None

\* the result has the absolute precision min(n, cap), and cap when n is omitted
C20_LiftedTo(cap) ==
    precision_absolute(last.new) = IF last.arg = None THEN cap ELSE Min(last.arg[1], cap)

\* C20 as stated: the precision of the result is min(n, domainCap) for a cap
\* of the domain, its absolute or its relative one
C20_AsStated == C20_Lifted => C20_LiftedTo(dom.abscap) \/ C20_LiftedTo(dom.relcap)

\* the cap of the declaration of an element of the stored value of x
C20_Cap == Min(dom.abscap, ValPlus(pvaluation(els[last.self].value), dom.relcap))

\* C20, amended: the precision of the result never exceeds n and is
\* min(n, absolute cap, relative cap + valuation of the stored value of x)
C20_LiftToPrecision ==
    C20_Lifted =>
        /\ last.arg # None => precision_absolute(last.new) <= last.arg[1]
        /\ C20_LiftedTo(C20_Cap)

\* a lift that asked for more than the cap of x allows and raised the
\* precision of x to that cap
C20_Witness ==
    /\ C20_Lifted
    /\ last.arg # None
    /\ last.arg[1] > C20_Cap
    /\ precision_absolute(last.self) < C20_Cap
    /\ precision_absolute(last.new) = C20_Cap

\* the last call was x.lift_to_precision(prec), with the default
\* infer_precision=False
C21_Lifted == last.op = "lift_to_precision" /\ last.err = "" /\ last.ret = None

\* the stored values of the result and of x agree modulo p^(precision of x)
C21_Congruent ==
    pvaluation(psub(els[last.new].value, els[last.self].value))
        >= precision_absolute(last.self)

\* C21 as stated: the result of lift_to_precision(prec) has absolute
\* precision at least prec and is congruent to x modulo p^(precision of x)
C21_AsStated ==
    C21_Lifted =>
        /\ last.arg # None => precision_absolute(last.new) >= last.arg[1]
        /\ C21_Congruent

\* what the code does instead for a prec above the cap: the result has less
\* precision than prec
C21_BelowRequested ==
    /\ C21_Lifted
    /\ last.arg # None
    /\ precision_absolute(last.new) < last.arg[1]

\* what the code does instead for a prec below the precision of x: the
\* result differs from x within the precision of x
C21_DigitsLost ==
    /\ C21_Lifted
    /\ ~C21_Congruent

\* C22: the element lift_to_precision(prec, infer_precision=False) returns is
\* declared with an empty differential, and the call leaves the stored value
\* and the absolute precision of self and of every other element as they were
C22_Independent ==
    [][last'.op = "lift_to_precision" /\ last'.err = "" /\ last'.ret = None =>
         /\ decl'[last'.new].dx = <<>>
         /\ \A e \in Elts :
              /\ els'[e] = els[e]
              /\ decl'[e] = decl[e]
              /\ precision_absolute_at(els', tracker', e)
                   = precision_absolute_at(els, tracker, e)]_vars

\* a lift of an element that depends on two others, to more precision than
\* the element has
C22_Witness ==
    /\ last.op = "lift_to_precision" /\ last.err = "" /\ last.ret = None
    /\ Len(decl[last.self].dx) = 2
    /\ decl[last.new].dx = <<>>
    /\ precision_absolute(last.new) > precision_absolute(last.self)

\* the step is a call of lift_to_precision(prec, infer_precision=True)
C23_InferLift == last'.op = "lift_to_precision" /\ last'.err = "" /\ last'.ret # None

\* min(prec, absolute cap, relative cap + valuation), and that cap when prec
\* is omitted, for the receiver of the step
C23_Target ==
    IF last'.arg = None
    THEN Min(dom.abscap, ValPlus(pvaluation(els[last'.self].value), dom.relcap))
    ELSE Min(last'.arg[1],
             Min(dom.abscap, ValPlus(pvaluation(els[last'.self].value), dom.relcap)))

\* C23 as stated: the call returns the receiver itself, declares no element
\* and hands min(prec, absolute cap, relative cap + valuation) to the tracker
C23_AsStated ==
    [][C23_InferLift =>
         /\ last'.new = last'.self
         /\ Len(els') = Len(els)
         /\ last'.ret[1] = C23_Target]_vars

\* C23, amended: the call declares one more element, a copy of the receiver
\* with the differential (receiver, 1), returns that copy and hands
\* min(prec, absolute cap, relative cap + valuation) to the tracker for it
C23_LiftsACopy ==
    [][C23_InferLift =>
         /\ last'.new = Len(els) + 1
         /\ Len(els') = Len(els) + 1
         /\ decl'[last'.new].dx = << <<last'.self, One>> >>
         /\ decl'[last'.new].prec = None
         /\ els'[last'.new].value = els[last'.self].value
         /\ els'[last'.self] = els[last'.self]
         /\ last'.ret[1] = C23_Target]_vars

\* a lift through the tracker that asked for more than the cap and returned
\* a copy with more precision than the receiver had at its creation
C23_Witness ==
    /\ last.op = "lift_to_precision" /\ last.err = "" /\ last.ret # None
    /\ last.arg # None
    /\ last.arg[1] > last.ret[1]
    /\ last.new # last.self
    /\ precision_absolute(last.new) > decl[last.self].prec0

\* the receiver of the step is indistinguishable from zero: its stored
\* valuation is at least its absolute precision
C24_Indistinguishable ==
    pvaluation(els[last'.self].value)
        >= precision_absolute_at(els, tracker, last'.self)

\* the step returned self >> v for the valuation v of the stored value, a
\* unit, and v with it when it is val_unit
C24_Unit ==
    /\ last'.err = ""
    /\ last'.new = Len(els) + 1
    /\ Len(els') = Len(els) + 1
    /\ decl'[last'.new].dx
         = << <<last'.self, powp(-pvaluation(els[last'.self].value))>> >>
    /\ decl'[last'.new].raw
         = pmul(els[last'.self].value, powp(-pvaluation(els[last'.self].value)))
    /\ pvaluation(els'[last'.new].value) = 0
    /\ last'.op = "val_unit" => last'.ret = Some(pvaluation(els[last'.self].value))

\* C24: unit_part() and val_unit() fail with a precision error and declare
\* nothing exactly when the element is indistinguishable from zero, and
\* otherwise return self >> v (with v for val_unit), a unit
C24_UnitPart ==
    [][last'.op \in {"unit_part", "val_unit"} =>
         IF C24_Indistinguishable
         THEN last'.err = "PrecisionError" /\ UNCHANGED <<els, tracker, decl>>
         ELSE C24_Unit]_vars

\* the example of the docstring: the unit part of an element of negative
\* valuation, with its valuation
C24_Witness ==
    /\ last.op = "val_unit"
    /\ last.err = ""
    /\ last.ret[1] < 0
    /\ pvaluation(els[last.new].value) = 0
    /\ els[last.new].value # One

\* expansion() of e is a sequence of digits as long as precision_relative()
C25_Length(e) ==
    /\ \A k \in 1..Len(expansion(e)) : expansion(e)[k] \in 0..(Prime - 1)
    /\ Len(expansion(e)) = precision_relative(e, FALSE).ret

C26_Creating ==
    {"new", "add", "sub", "mul", "div", "invert", "lshift", "rshift", "copy",
     "add_bigoh", "lift_to_precision"}

\* C26: every creation of an element registers exactly one element with the
\* tracker, whose count of tracked elements grows by one, and the element is
\* registered and truncated when the constructor returns it
C26_DeclaredOnce ==
    [][last'.op \in C26_Creating /\ last'.err = "" =>
         /\ last'.new = Len(els) + 1
         /\ Len(els') = Len(els) + 1
         /\ Len(tracker'.matrix) = Len(tracker.matrix) + 1
         /\ tracker'.count = tracker.count + 1
         /\ Len(tracker'.matrix) = Len(els')
         /\ els'[last'.new].value
              = preduce(decl'[last'.new].raw, decl'[last'.new].trunc)]_vars

\* three elements were created, the last one by a division, and its value
\* was truncated
C26_Witness ==
    /\ last.op = "div"
    /\ last.err = ""
    /\ Len(els) = 3
    /\ tracker.count = 3
    /\ Len(tracker.matrix) = 3
    /\ els[3].value # decl[3].raw

\* two right vertices have a left neighbour in common
C27_TwoPath(a, b) == \E u \in left : {a, u} \in edges /\ {b, u} \in edges

\* C27 as stated: the graph project_right() returns has the right partition
\* as its vertices, and two of them are adjacent in it exactly when a 2-path
\* joins them in the bipartite graph
C27_AsStated ==
    last.op = "project_right" =>
        /\ last.ret[1].vertices = right
        /\ \A a \in right : \A b \in right \ {a} :
             {a, b} \in last.ret[1].edges <=> C27_TwoPath(a, b)
        /\ \A e \in last.ret[1].edges : e \subseteq right

\* what the code does instead: project_right() returns the projection on left
C27_ProjectsLeft ==
    /\ last.op = "project_right"
    /\ left # right
    /\ left \cap right = {}
    /\ left \cup right = vertices
    /\ last.ret[1].vertices = left
    /\ last.ret[1].edges # {}

\* the step is a call of add_vertex, add_vertices or add_edge that raised;
\* for add_edge, because both endpoints lie in the same partition
C28_Raised ==
    \/ last'.op \in {"add_vertex", "add_vertices"} /\ last'.err # ""
    \/ last'.op = "add_edge"
         /\ last'.err = "Edge vertices must lie in different partitions."

\* the step is a call of add_vertex that returned, for a vertex of the graph
C28_Readded ==
    /\ last'.op = "add_vertex"
    /\ last'.err = ""
    /\ last'.arg # None
    /\ last'.arg[1] \in vertices

\* C28: a call of add_vertex, add_vertices or add_edge that raises leaves the
\* vertices, the edges, left and right as they were, and so does adding a
\* vertex of the graph to its own partition again
C28_Atomic == [][C28_Raised \/ C28_Readded => UNCHANGED gvars]_vars

\* add_vertices raised for a list with a vertex of the other partition and a
\* vertex that is not in the graph, which stayed out of it
C28_Witness ==
    /\ last.op = "add_vertices"
    /\ last.err = "Cannot add duplicate vertex to other partition."
    /\ Range(last.arg[1]) \cap vertices # {}
    /\ Range(last.arg[1]) \ vertices # {}
    /\ left \cap right = {}
    /\ left \cup right = vertices

\* left and right split the vertices, and every edge joins left and right
C29_Bipartite ==
    /\ left \cap right = {}
    /\ left \cup right = vertices
    /\ \A e \in edges : Cardinality(e \cap left) = 1 /\ Cardinality(e \cap right) = 1

\* add_edge(u, v) returned: a new endpoint is in the partition opposite to
\* its partner that was in the graph, and of two new endpoints the first is
\* in left and the second in right
C29_Placed ==
    last'.op = "add_edge" /\ last'.err = "" =>
        /\ last'.self \notin vertices /\ last'.other \in left => last'.self \in right'
        /\ last'.self \notin vertices /\ last'.other \in right => last'.self \in left'
        /\ last'.other \notin vertices /\ last'.self \in left => last'.other \in right'
        /\ last'.other \notin vertices /\ last'.self \in right => last'.other \in left'
        /\ last'.self \notin vertices /\ last'.other \notin vertices =>
             last'.self \in left' /\ last'.other \in right'

\* every call of add_edge that returns places its new endpoints so
C29_Placement == [][C29_Placed]_vars

\* C29 as stated: after any calls of add_vertex, add_vertices, add_edge,
\* delete_vertex and delete_vertices, whether they return or raise, left and
\* right are disjoint, their union is the vertex set and every edge joins
\* left and right; and add_edge places new endpoints as C29_Placed says
C29_AsStated == [](C29_Bipartite) /\ C29_Placement

\* what the code does instead: delete_vertices raised on a vertex listed
\* twice and left a vertex in a partition that is not in the graph
C29_StaleVertex ==
    /\ last.op = "delete_vertices"
    /\ last.err = "Vertex not found in partitions"
    /\ (left \cup right) \ vertices # {}

\* the precisions is_zero(prec) is asked at
C30_Precs == (-MaxPrec)..(CapAbs + 1)

\* is_zero(), _is_inexact_zero() and the failure of valuation(secure=True)
\* are the same condition on e, and precision_relative() is never negative
\* and is 0 only then
C30_Zero(e) ==
    /\ precision_relative(e, FALSE).err = ""
    /\ precision_relative(e, FALSE).ret >= 0
    /\ is_zero(e, None) <=> _is_inexact_zero(e)
    /\ is_zero(e, None) <=> valuation(e, TRUE).err = "PrecisionError"
    /\ precision_relative(e, FALSE).ret = 0 => is_zero(e, None)

\* the precisions at which e is zero
C30_ZeroAt(e) == {prec \in C30_Precs : is_zero(e, Some(prec))}

\* is_zero(prec) follows from is_zero() and from is_zero at a larger prec
C30_Monotone(e) ==
    LET Z == C30_ZeroAt(e)
    IN  /\ is_zero(e, None) => Z = C30_Precs
        /\ \A prec \in Z : \A prec2 \in C30_Precs : prec2 <= prec => prec2 \in Z

C30_ExactZero ==
    \E e \in Elts :
        /\ is_zero(e, None)
        /\ precision_absolute(e) = Infinity
        /\ precision_relative(e, FALSE).ret # 0
====
